---------------------------- MODULE Spec2Model ----------------------------
(***************************************************************************)
(* Model of the fixed-point value type Fix<Bits, Base, Exp> of src/lib.rs. *)
(*                                                                         *)
(* A Fix value is a record [bits, base, exp, ty]: bits is the only field   *)
(* stored at run time, base and exp are the type-level scale, ty names the *)
(* integer primitive used for Bits.  Every operation of the library is an  *)
(* operator translated from its body; the integer primitives follow the    *)
(* Rust semantics the bodies delegate to: an arithmetic overflow of +, -,  *)
(* * and pow aborts when the build has overflow checks (overflow_checks)   *)
(* and wraps when it has not; / and % abort on a zero divisor and on       *)
(* MIN / -1 in every build.                                                *)
(***************************************************************************)
EXTENDS Integers, Sequences, FiniteSets

VARIABLES overflow_checks, \* the build aborts on arithmetic overflow (else wraps)
          a,      \* the left operand (self); replaced by the in-place operators
          b,      \* the right operand of the last binary operation
          k,      \* the raw-magnitude (scalar) operand of the last operation
          op,     \* the last operation applied
          a0,     \* self as it was before the last operation
          to_exp, \* the target exponent of the last conversion
          mid,    \* the intermediate value of a chained conversion
          res,    \* the result of the last operation
          obs     \* what the comparison and hashing operations returned

vars == <<overflow_checks, a, b, k, op, a0, to_exp, mid, res, obs>>

---------------------------------------------------------------------------
(* Bounds of the model. *)

\* magnitudes -MaxMag..MaxMag around zero are drawn as inputs
MaxMag == 2
\* exponents -MaxExp..MaxExp are drawn as inputs
MaxExp == 2

---------------------------------------------------------------------------
(* The magnitude types: three of the twelve primitives FromUnsigned and    *)
(* Pow are given for, the narrowest unsigned and signed ones and a wider   *)
(* one to cast from.                                                       *)

Types == {"u8", "i8", "i16"}

Signed(ty) == ty \in {"i8", "i16"}

u8_BITS == 8
i8_BITS == 8
i16_BITS == 16

Width(ty) == CASE ty = "u8" -> u8_BITS
               [] ty = "i8" -> i8_BITS
               [] ty = "i16" -> i16_BITS

RECURSIVE Power(_, _)
\* x^n over the integers, 0^0 = 1
Power(x, n) == IF n = 0 THEN 1 ELSE x * Power(x, n - 1)

MinOf(ty) == IF Signed(ty) THEN -Power(2, Width(ty) - 1) ELSE 0
MaxOf(ty) == IF Signed(ty) THEN Power(2, Width(ty) - 1) - 1
                           ELSE Power(2, Width(ty)) - 1

InRange(ty, x) == MinOf(ty) <= x /\ x <= MaxOf(ty)

\* two's complement reduction of an exact integer to the type
Wrap(ty, x) ==
    LET m == Power(2, Width(ty))
    IN  IF Signed(ty) THEN ((x + m \div 2) % m) - m \div 2 ELSE x % m

Abs(x) == IF x < 0 THEN -x ELSE x

\* division rounding toward negative infinity instead of toward zero
FloorDiv(x, y) == IF y < 0 THEN (-x) \div (-y) ELSE x \div y

\* integer division truncating toward zero (y # 0)
TruncDiv(x, y) ==
    IF (x < 0) = (y < 0) THEN Abs(x) \div Abs(y) ELSE -(Abs(x) \div Abs(y))

\* remainder with the sign of the dividend (y # 0)
TruncRem(x, y) == x - y * TruncDiv(x, y)

---------------------------------------------------------------------------
(* Results.  tag "ok": a Fix value; "some"/"none": an Option<Fix>;         *)
(* "unit": an in-place operator returned, fix is the updated self;         *)
(* "panic": the operation aborted.                                         *)

NoFix == [bits |-> 0, base |-> 0, exp |-> 0, ty |-> "none"]

Outcome(tag, fix) == [tag |-> tag, fix |-> fix]

Panic == Outcome("panic", NoFix)
None == Outcome("none", NoFix)

\* Fix::new
new(bits, base, exp, ty) == [bits |-> bits, base |-> base, exp |-> exp, ty |-> ty]

---------------------------------------------------------------------------
(* The integer primitives the bodies delegate to.  An outcome is           *)
(* [tag, v]: "ok" with the magnitude v, "panic", or "none" (checked).      *)

IOk(v) == [tag |-> "ok", v |-> v]
IPanic == [tag |-> "panic", v |-> 0]
INone == [tag |-> "none", v |-> 0]

\* an exact result x of +, -, *, pow or unary -: itself when the type holds it,
\* else an abort (overflow checks on) or the wrapped value (off)
Overflowing(ty, x) ==
    IF InRange(ty, x) THEN IOk(x)
    ELSE IF overflow_checks THEN IPanic ELSE IOk(Wrap(ty, x))

IntAdd(ty, x, y) == Overflowing(ty, x + y)
IntSub(ty, x, y) == Overflowing(ty, x - y)
IntMul(ty, x, y) == Overflowing(ty, x * y)
IntNeg(ty, x) == Overflowing(ty, -x)

\* / aborts on a zero divisor and on MIN / -1 in every build
IntDiv(ty, x, y) ==
    IF y = 0 \/ (Signed(ty) /\ x = MinOf(ty) /\ y = -1)
    THEN IPanic ELSE IOk(TruncDiv(x, y))

\* % aborts on a zero divisor and on MIN % -1 in every build
IntRem(ty, x, y) ==
    IF y = 0 \/ (Signed(ty) /\ x = MinOf(ty) /\ y = -1)
    THEN IPanic ELSE IOk(TruncRem(x, y))

\* an addition that wraps instead of reporting the overflow
IntWrappingAdd(ty, x, y) == IOk(Wrap(ty, x + y))

\* a division that guards the zero divisor only
IntDivZeroGuarded(ty, x, y) == IF y = 0 THEN INone ELSE IOk(TruncDiv(x, y))

\* checked_add, checked_sub, checked_mul, checked_div of the primitive
IntCheckedAdd(ty, x, y) == IF InRange(ty, x + y) THEN IOk(x + y) ELSE INone
IntCheckedSub(ty, x, y) == IF InRange(ty, x - y) THEN IOk(x - y) ELSE INone
IntCheckedMul(ty, x, y) == IF InRange(ty, x * y) THEN IOk(x * y) ELSE INone
IntCheckedDiv(ty, x, y) ==
    IF y = 0 \/ (Signed(ty) /\ x = MinOf(ty) /\ y = -1)
    THEN INone ELSE IOk(TruncDiv(x, y))

\* the primitive's comparison
IntCmp(x, y) == IF x < y THEN "Less" ELSE IF x = y THEN "Equal" ELSE "Greater"

\* the primitive's Hash: one write of the magnitude to the hasher
IntHash(ty, x, state) == Append(state, [write |-> ty, v |-> x])

\* a numeric cast `x as ty`
Cast(ty, x) == Wrap(ty, x)

\* FromUnsigned::from_unsigned::<U>(): the type-level integer as a Bits
from_unsigned(ty, u) == Wrap(ty, u)

RECURSIVE IntPow(_, _, _)
\* the primitive's pow: exp multiplications in the type, each of which may
\* overflow; x^0 = 1
IntPow(ty, x, exp) ==
    IF exp = 0 THEN IOk(1)
    ELSE LET r == IntPow(ty, x, exp - 1)
         IN  IF r.tag = "panic" THEN IPanic ELSE IntMul(ty, r.v, x)

\* Pow::pow: the primitive's own pow
pow(ty, x, exp) == IntPow(ty, x, exp)

\* an unchecked magnitude outcome as a Fix of the given scale
Lift(r, base, exp, ty) ==
    IF r.tag = "ok" THEN Outcome("ok", new(r.v, base, exp, ty)) ELSE Panic

\* Option::map(Fix::new)
MapNew(r, base, exp, ty) ==
    IF r.tag = "ok" THEN Outcome("some", new(r.v, base, exp, ty)) ELSE None

\* an in-place operator's outcome: self with the new magnitude
Assigned(r, self) ==
    IF r.tag = "ok" THEN Outcome("unit", [self EXCEPT !.bits = r.v]) ELSE Panic

---------------------------------------------------------------------------
(* The operations of Fix.  self and rhs are Fix records; the type system   *)
(* has already fixed which scales an operator accepts (see the actions).   *)

\* convert with the coarsening branch forgotten: always multiplies
convert_always_mul(self, ToExp) ==
    LET base == from_unsigned(self.ty, self.base)
        diff == Abs(self.exp - ToExp)
        ratio == pow(self.ty, base, diff)
    IN  IF ratio.tag = "panic" THEN Panic
        ELSE Lift(IntMul(self.ty, self.bits, ratio.v), self.base, ToExp, self.ty)

\* Fix::convert::<ToExp>.  inverse is Le<Diff<Exp, ToExp>, Z0>, the strict
\* IsLess<Z0> of the where clause: for Exp = ToExp the magnitude is multiplied
\* by the ratio Base^0 = 1
convert(self, ToExp) ==
    LET base == from_unsigned(self.ty, self.base)
        diff == Abs(self.exp - ToExp)
        inverse == self.exp - ToExp < 0
        ratio == pow(self.ty, base, diff)
    IN  IF ratio.tag = "panic" THEN Panic
        ELSE IF inverse
             THEN Lift(IntDiv(self.ty, self.bits, ratio.v), self.base, ToExp, self.ty)
             ELSE Lift(IntMul(self.ty, self.bits, ratio.v), self.base, ToExp, self.ty)

\* a map_bits that retags the magnitude without applying the transform
map_bits_unapplied(self, ToBits) ==
    Outcome("ok", new(self.bits, self.base, self.exp, ToBits))

\* Fix::map_bits with the transform f = |b| b as ToBits
map_bits(self, ToBits) ==
    Outcome("ok", new(Cast(ToBits, self.bits), self.base, self.exp, ToBits))

\* Hash::hash
hash(self, state) == IntHash(self.ty, self.bits, state)

\* PartialEq::eq
eq(self, rhs) == self.bits = rhs.bits

\* PartialOrd::partial_cmp (always Some for the primitives)
partial_cmp(self, rhs) == IntCmp(self.bits, rhs.bits)

\* a comparison with its operands swapped
cmp_swapped(self, rhs) == IntCmp(rhs.bits, self.bits)

\* Ord::cmp
cmp(self, rhs) == IntCmp(self.bits, rhs.bits)

\* Neg::neg
neg(self) == Lift(IntNeg(self.ty, self.bits), self.base, self.exp, self.ty)

\* Add::add
add(self, rhs) ==
    Lift(IntAdd(self.ty, self.bits, rhs.bits), self.base, self.exp, self.ty)

\* Sub::sub
sub(self, rhs) ==
    Lift(IntSub(self.ty, self.bits, rhs.bits), self.base, self.exp, self.ty)

\* a multiplication that keeps the left exponent
mul_keeps_exp(self, rhs) ==
    Lift(IntMul(self.ty, self.bits, rhs.bits), self.base, self.exp, self.ty)

\* Mul<Fix<Bits, Base, RExp>>::mul, Output = Fix<Bits, Base, Sum<LExp, RExp>>
mul(self, rhs) ==
    Lift(IntMul(self.ty, self.bits, rhs.bits), self.base, self.exp + rhs.exp, self.ty)

\* Div<Fix<Bits, Base, RExp>>::div, Output = Fix<Bits, Base, Diff<LExp, RExp>>
div(self, rhs) ==
    Lift(IntDiv(self.ty, self.bits, rhs.bits), self.base, self.exp - rhs.exp, self.ty)

\* Rem::rem
rem(self, rhs) ==
    Lift(IntRem(self.ty, self.bits, rhs.bits), self.base, self.exp, self.ty)

\* Mul<Bits>::mul
mul_bits(self, rhs) ==
    Lift(IntMul(self.ty, self.bits, rhs), self.base, self.exp, self.ty)

\* Div<Bits>::div
div_bits(self, rhs) ==
    Lift(IntDiv(self.ty, self.bits, rhs), self.base, self.exp, self.ty)

\* Rem<Bits>::rem
rem_bits(self, rhs) ==
    Lift(IntRem(self.ty, self.bits, rhs), self.base, self.exp, self.ty)

\* an in-place addition that assigns instead of adding
add_assign_overwrites(self, rhs) == Assigned(IOk(rhs.bits), self)

\* AddAssign::add_assign
add_assign(self, rhs) == Assigned(IntAdd(self.ty, self.bits, rhs.bits), self)

\* SubAssign::sub_assign
sub_assign(self, rhs) == Assigned(IntSub(self.ty, self.bits, rhs.bits), self)

\* MulAssign<Bits>::mul_assign
mul_assign_bits(self, rhs) == Assigned(IntMul(self.ty, self.bits, rhs), self)

\* DivAssign<Bits>::div_assign
div_assign_bits(self, rhs) == Assigned(IntDiv(self.ty, self.bits, rhs), self)

\* an in-place remainder that first brings rhs to self's exponent
rem_assign_rescaled(self, rhs) ==
    LET r == convert(rhs, self.exp)
    IN  IF r.tag = "panic" THEN Panic
        ELSE Assigned(IntRem(self.ty, self.bits, r.fix.bits), self)

\* RemAssign<Fix<Bits, Base, RExp>>::rem_assign
rem_assign(self, rhs) == Assigned(IntRem(self.ty, self.bits, rhs.bits), self)

\* RemAssign<Bits>::rem_assign
rem_assign_bits(self, rhs) == Assigned(IntRem(self.ty, self.bits, rhs), self)

\* CheckedAdd::checked_add
checked_add(self, v) ==
    MapNew(IntCheckedAdd(self.ty, self.bits, v.bits), self.base, self.exp, self.ty)

\* CheckedSub::checked_sub
checked_sub(self, v) ==
    MapNew(IntCheckedSub(self.ty, self.bits, v.bits), self.base, self.exp, self.ty)

\* CheckedMulFix::checked_mul, Output = Fix<Bits, Base, Sum<LExp, RExp>>
checked_mul(self, v) ==
    MapNew(IntCheckedMul(self.ty, self.bits, v.bits), self.base, self.exp + v.exp, self.ty)

\* a checked divide that divides before it checks
checked_div_unguarded(self, v) ==
    LET r == IntDiv(self.ty, self.bits, v.bits)
    IN  IF r.tag = "panic" THEN Panic
        ELSE Outcome("some", new(r.v, self.base, self.exp - v.exp, self.ty))

\* CheckedDivFix::checked_div, Output = Fix<Bits, Base, Diff<LExp, RExp>>
checked_div(self, v) ==
    MapNew(IntCheckedDiv(self.ty, self.bits, v.bits), self.base, self.exp - v.exp, self.ty)

---------------------------------------------------------------------------
(* The inputs drawn. *)

\* the bases: the degenerate 0, and those of the binary, decimal and
\* hexadecimal scales
Bases == {0, 2, 10, 16}

Exps == -MaxExp .. MaxExp

\* magnitudes of the documentation and the tests
Examples == {5, 6, 40, 100, 1699}

\* the magnitudes drawn for a type: around zero, at both ends of its range,
\* and the examples it holds
Mags(ty) ==
    {m \in (-MaxMag .. MaxMag)
           \cup {MinOf(ty), MinOf(ty) + 1, MaxOf(ty) - 1, MaxOf(ty)}
           \cup Examples : InRange(ty, m)}

NoObs == [eq |-> FALSE, partial_cmp |-> "", cmp |-> "", rcmp |-> "",
          hash |-> <<>>, rhash |-> <<>>]

---------------------------------------------------------------------------
(* The state machine: a value is constructed, then one operation is        *)
(* applied to it; a conversion's result may be converted once more.        *)

Init ==
    /\ overflow_checks \in BOOLEAN
    /\ \E ty \in Types, base \in Bases, exp \in Exps :
         \E bits \in Mags(ty) : a = new(bits, base, exp, ty)
    /\ b = NoFix
    /\ k = 0
    /\ op = "new"
    /\ a0 = a
    /\ to_exp = a.exp
    /\ mid = NoFix
    /\ res = Outcome("ok", a)
    /\ obs = NoObs

\* a right operand of self's magnitude type, base and exponent
SameScale(self) == {new(m, self.base, self.exp, self.ty) : m \in Mags(self.ty)}

\* a right operand of self's magnitude type and base, of any exponent
AnyExp(self) ==
    {new(m, self.base, e, self.ty) : m \in Mags(self.ty), e \in Exps}

\* a value just constructed, no operation applied to it yet
Fresh == op = "new"

\* a value-returning operation: self is consumed (copied), res holds the result
Returns(name, rhs, scalar, r) ==
    /\ op' = name
    /\ b' = rhs
    /\ k' = scalar
    /\ a0' = a
    /\ res' = r
    /\ UNCHANGED <<overflow_checks, a, to_exp, mid, obs>>

\* an in-place operation: self holds the new magnitude unless it aborted
Assigns(name, rhs, scalar, r) ==
    /\ op' = name
    /\ b' = rhs
    /\ k' = scalar
    /\ a0' = a
    /\ a' = IF r.tag = "unit" THEN r.fix ELSE a
    /\ res' = r
    /\ UNCHANGED <<overflow_checks, to_exp, mid, obs>>

Convert ==
    /\ Fresh
    /\ \E ToExp \in Exps :
         /\ to_exp' = ToExp
         /\ res' = convert(a, ToExp)
    /\ op' = "convert"
    /\ a0' = a
    /\ UNCHANGED <<overflow_checks, a, b, k, mid, obs>>

\* the result of a conversion converted again
ConvertAgain ==
    /\ op = "convert"
    /\ res.tag = "ok"
    /\ \E ToExp \in Exps :
         /\ to_exp' = ToExp
         /\ res' = convert(res.fix, ToExp)
    /\ op' = "convert_convert"
    /\ mid' = res.fix
    /\ UNCHANGED <<overflow_checks, a, b, k, a0, obs>>

MapBits == Fresh /\ \E ToBits \in Types : Returns("map_bits", NoFix, 0, map_bits(a, ToBits))

Compare ==
    /\ Fresh
    /\ \E rhs \in SameScale(a) :
         /\ b' = rhs
         /\ obs' = [eq |-> eq(a, rhs), partial_cmp |-> partial_cmp(a, rhs),
                    cmp |-> cmp(a, rhs), rcmp |-> cmp(rhs, a),
                    hash |-> hash(a, <<>>), rhash |-> hash(rhs, <<>>)]
    /\ op' = "compare"
    /\ a0' = a
    /\ UNCHANGED <<overflow_checks, a, k, to_exp, mid, res>>

Neg == Fresh /\ Signed(a.ty) /\ Returns("neg", NoFix, 0, neg(a))
Add == Fresh /\ \E rhs \in SameScale(a) : Returns("add", rhs, 0, add(a, rhs))
Sub == Fresh /\ \E rhs \in SameScale(a) : Returns("sub", rhs, 0, sub(a, rhs))
Mul == Fresh /\ \E rhs \in AnyExp(a) : Returns("mul", rhs, 0, mul(a, rhs))
Div == Fresh /\ \E rhs \in AnyExp(a) : Returns("div", rhs, 0, div(a, rhs))
Rem == Fresh /\ \E rhs \in SameScale(a) : Returns("rem", rhs, 0, rem(a, rhs))
MulBits == Fresh /\ \E rhs \in Mags(a.ty) : Returns("mul_bits", NoFix, rhs, mul_bits(a, rhs))
DivBits == Fresh /\ \E rhs \in Mags(a.ty) : Returns("div_bits", NoFix, rhs, div_bits(a, rhs))
RemBits == Fresh /\ \E rhs \in Mags(a.ty) : Returns("rem_bits", NoFix, rhs, rem_bits(a, rhs))

AddAssign == Fresh /\ \E rhs \in SameScale(a) : Assigns("add_assign", rhs, 0, add_assign(a, rhs))
SubAssign == Fresh /\ \E rhs \in SameScale(a) : Assigns("sub_assign", rhs, 0, sub_assign(a, rhs))
MulAssignBits == Fresh /\
    \E rhs \in Mags(a.ty) : Assigns("mul_assign_bits", NoFix, rhs, mul_assign_bits(a, rhs))
DivAssignBits == Fresh /\
    \E rhs \in Mags(a.ty) : Assigns("div_assign_bits", NoFix, rhs, div_assign_bits(a, rhs))
RemAssign == Fresh /\ \E rhs \in AnyExp(a) : Assigns("rem_assign", rhs, 0, rem_assign(a, rhs))
RemAssignBits == Fresh /\
    \E rhs \in Mags(a.ty) : Assigns("rem_assign_bits", NoFix, rhs, rem_assign_bits(a, rhs))

CheckedAdd == Fresh /\ \E v \in SameScale(a) : Returns("checked_add", v, 0, checked_add(a, v))
CheckedSub == Fresh /\ \E v \in SameScale(a) : Returns("checked_sub", v, 0, checked_sub(a, v))
CheckedMul == Fresh /\ \E v \in AnyExp(a) : Returns("checked_mul", v, 0, checked_mul(a, v))
CheckedDiv == Fresh /\ \E v \in AnyExp(a) : Returns("checked_div", v, 0, checked_div(a, v))

Next ==
    \/ Neg \/ Add \/ Sub \/ Mul \/ Div \/ Rem
    \/ MulBits \/ DivBits \/ RemBits
    \/ AddAssign \/ SubAssign \/ MulAssignBits \/ DivAssignBits
    \/ RemAssign \/ RemAssignBits
    \/ CheckedAdd \/ CheckedSub \/ CheckedMul \/ CheckedDiv
    \/ Compare \/ MapBits \/ Convert \/ ConvertAgain

Spec == Init /\ [][Next]_vars

---------------------------------------------------------------------------
(* Properties. *)

\* Base^diff is a value of the magnitude type
RatioFits(f, diff) == InRange(f.ty, Power(f.base, diff))

\* m * Base^diff is a value of the magnitude type, and so is Base^diff
ScaledFits(f, diff) ==
    /\ RatioFits(f, diff)
    /\ InRange(f.ty, f.bits * Power(f.base, diff))

\* q is x / y truncated toward zero: x = q*y + r with |r| < |y| and r of the
\* sign of x, or zero
IsTruncQuot(q, x, y) ==
    LET r == x - q * y
    IN  /\ Abs(r) < Abs(y)
        /\ r = 0 \/ (r < 0) = (x < 0)

\* r is x % y: x - r is a multiple of y, |r| < |y|, r of the sign of x, or zero
IsTruncRem(r, x, y) ==
    /\ y # 0
    /\ (x - r) % Abs(y) = 0
    /\ Abs(r) < Abs(y)
    /\ r = 0 \/ (r < 0) = (x < 0)

\* a conversion to a finer exponent and back to the original one has run
RoundTripped ==
    /\ op = "convert_convert"
    /\ mid.exp < a0.exp
    /\ to_exp = a0.exp

\* C1 as stated: for every magnitude, base and pair of exponents E2 < E1,
\* converting (m, E1) to E2 and back to E1 yields the original value
C1_RoundTripAlways ==
    /\ (op = "convert" /\ to_exp < a0.exp) => res.tag = "ok"
    /\ RoundTripped => res = Outcome("ok", a0)

\* C1 amended: converting (m, E1) to a finer exponent E2 and back to E1
\* yields the original value provided Base >= 1 and both Base^(E1-E2) and
\* m * Base^(E1-E2) are values of the magnitude type
C1_RoundTripWhenScaledFits ==
    /\ (op = "convert" /\ to_exp < a0.exp /\ ScaledFits(a0, a0.exp - to_exp))
         => /\ res.tag = "ok"
            /\ res.fix = new(a0.bits * Power(a0.base, a0.exp - to_exp),
                             a0.base, to_exp, a0.ty)
    /\ (RoundTripped /\ a0.base >= 1 /\ ScaledFits(a0, a0.exp - mid.exp))
         => res = Outcome("ok", a0)

\* a nonzero magnitude at base 10 was refined and converted back
C1_Witness ==
    /\ RoundTripped
    /\ a0.base = 10
    /\ a0.bits = 5
    /\ mid.bits = 500
    /\ res = Outcome("ok", a0)

\* the refining branch of convert: the magnitude times Base^diff, as the
\* magnitude type multiplies (exact, or on overflow aborted or wrapped)
Refined(diff) ==
    LET exact == a0.bits * Power(a0.base, diff)
    IN  IF InRange(a0.ty, exact)
        THEN res = Outcome("ok", new(exact, a0.base, to_exp, a0.ty))
        ELSE IF overflow_checks THEN res.tag = "panic"
             ELSE res = Outcome("ok", new(Wrap(a0.ty, exact), a0.base, to_exp, a0.ty))

\* the coarsening branch of convert: the magnitude over Base^diff, truncated
\* toward zero
Coarsened(diff) ==
    LET ratio == Power(a0.base, diff)
    IN  /\ res.tag = "ok"
        /\ res.fix.base = a0.base /\ res.fix.exp = to_exp /\ res.fix.ty = a0.ty
        /\ LET r == a0.bits - res.fix.bits * ratio
           IN  /\ Abs(r) < ratio
               /\ r = 0 \/ (r < 0) = (a0.bits < 0)
        /\ diff = 0 => res.fix.bits = a0.bits

\* C2 as stated: for Exp <= ToExp with Base^(ToExp-Exp) representable,
\* convert returns the quotient truncated toward zero (unchanged when
\* Exp = ToExp); for Exp > ToExp it multiplies by Base^(Exp-ToExp)
C2_CoarsenTruncatesAnyRatio ==
    op = "convert" =>
      LET diff == Abs(a0.exp - to_exp)
      IN  RatioFits(a0, diff) =>
            IF a0.exp <= to_exp THEN Coarsened(diff) ELSE Refined(diff)

\* C2 amended: the same, for a ratio that is representable and nonzero
\* (Base >= 1, or Exp = ToExp)
C2_CoarsenTruncatesNonzeroRatio ==
    op = "convert" =>
      LET diff == Abs(a0.exp - to_exp)
      IN  (RatioFits(a0, diff) /\ Power(a0.base, diff) # 0) =>
            IF a0.exp <= to_exp THEN Coarsened(diff) ELSE Refined(diff)

\* a negative magnitude that is no multiple of the ratio was coarsened
C2_Witness ==
    /\ op = "convert"
    /\ a0.exp < to_exp
    /\ a0.base = 2
    /\ a0.bits = -127
    /\ res.tag = "ok"
    /\ res.fix.bits = -63

\* C3: checked add, subtract and multiply return an absent result exactly
\* when the exact sum, difference or product of the magnitudes lies outside
\* the magnitude type, and otherwise a present value holding the exact
\* result, at the operands' exponent (add, subtract) or at E1 + E2 (multiply)
C3_CheckedExactOrAbsent ==
    op \in {"checked_add", "checked_sub", "checked_mul"} =>
      LET exact == CASE op = "checked_add" -> a0.bits + b.bits
                     [] op = "checked_sub" -> a0.bits - b.bits
                     [] op = "checked_mul" -> a0.bits * b.bits
          exp == IF op = "checked_mul" THEN a0.exp + b.exp ELSE a0.exp
      IN  /\ res.tag \in {"some", "none"}
          /\ res.tag = "none" <=> ~InRange(a0.ty, exact)
          /\ res.tag = "some" => res.fix = new(exact, a0.base, exp, a0.ty)

\* MAX + 1 on the 8-bit unsigned magnitude is absent
C3_Witness ==
    /\ op = "checked_add"
    /\ a0.ty = "u8"
    /\ a0.bits = 255
    /\ b.bits = 1
    /\ res.tag = "none"

\* C4: checked divide of (x, E1) by (y, E2) is absent when y = 0 or when the
\* quotient overflows (signed minimum over -1), in every other case present
\* with magnitude x / y truncated at exponent E1 - E2; it never aborts
C4_CheckedDivAbsentOrQuotient ==
    op = "checked_div" =>
      /\ res.tag \in {"some", "none"}
      /\ res.tag = "none" <=>
           \/ b.bits = 0
           \/ Signed(a0.ty) /\ a0.bits = MinOf(a0.ty) /\ b.bits = -1
      /\ res.tag = "some" =>
           /\ IsTruncQuot(res.fix.bits, a0.bits, b.bits)
           /\ InRange(a0.ty, res.fix.bits)
           /\ res.fix.base = a0.base
           /\ res.fix.exp = a0.exp - b.exp
           /\ res.fix.ty = a0.ty

\* the signed minimum divided by -1 is absent
C4_Witness ==
    /\ op = "checked_div"
    /\ a0.ty = "i8"
    /\ a0.bits = -128
    /\ b.bits = -1
    /\ b.exp # a0.exp
    /\ res.tag = "none"

RECURSIVE SameValue(_, _, _, _, _)
\* m1 * B^e1 = m2 * B^e2 as rationals (B >= 1), decided without leaving the
\* integers: the side with the smaller exponent is divided by B exactly
SameValue(B, m1, e1, m2, e2) ==
    IF e1 = e2 THEN m1 = m2
    ELSE IF e1 > e2
         THEN m2 % B = 0 /\ SameValue(B, m1, e1 - 1, m2 \div B, e2)
         ELSE m1 % B = 0 /\ SameValue(B, m1 \div B, e1, m2, e2 - 1)

\* the product of the semantic values x * B^e1 and y * B^e2, as the pair
\* <<magnitude, exponent>> of (x * B^(e1 - lo)) * (y * B^(e2 - lo)) * B^(2 lo)
ValueProduct(B, x, e1, y, e2) ==
    LET lo == IF e1 < e2 THEN e1 ELSE e2
    IN  <<(x * Power(B, e1 - lo)) * (y * Power(B, e2 - lo)), 2 * lo>>

\* the operands are small enough for ValueProduct to be computed
SmallOperands == Abs(a0.bits) <= MaxMag /\ Abs(b.bits) <= MaxMag

\* C5: multiplying (x, E1) by (y, E2) yields magnitude x * y at exponent
\* E1 + E2 and dividing yields magnitude x / y at exponent E1 - E2; when
\* x * y does not overflow the product's semantic value is the product of
\* the operands' semantic values
C5_MulDivCombineExponents ==
    /\ op = "mul" =>
         LET exact == a0.bits * b.bits
         IN  /\ InRange(a0.ty, exact) =>
                  /\ res = Outcome("ok", new(exact, a0.base, a0.exp + b.exp, a0.ty))
                  /\ (a0.base >= 1 /\ SmallOperands) =>
                       LET p == ValueProduct(a0.base, a0.bits, a0.exp, b.bits, b.exp)
                       IN  SameValue(a0.base, res.fix.bits, res.fix.exp, p[1], p[2])
             /\ res.tag = "ok" =>
                  res.fix = new(Wrap(a0.ty, exact), a0.base, a0.exp + b.exp, a0.ty)
    /\ op = "div" =>
         /\ res.tag = "ok" <=>
              ~(\/ b.bits = 0
                \/ Signed(a0.ty) /\ a0.bits = MinOf(a0.ty) /\ b.bits = -1)
         /\ res.tag = "ok" =>
              /\ IsTruncQuot(res.fix.bits, a0.bits, b.bits)
              /\ res.fix.base = a0.base
              /\ res.fix.exp = a0.exp - b.exp
              /\ res.fix.ty = a0.ty

\* 2 at exponent E1 times -2 at a different exponent E2 is -4 at E1 + E2 # 0
C5_Witness ==
    /\ op = "mul"
    /\ a0.bits = 2 /\ b.bits = -2
    /\ a0.base = 10
    /\ a0.exp = MaxExp /\ b.exp = -1
    /\ res = Outcome("ok", new(-4, 10, MaxExp - 1, a0.ty))

\* the operand the last operation took as self
SelfOf == IF op = "convert_convert" THEN mid ELSE a0

\* the magnitude the last operation took as its right operand
RhsBits ==
    IF op \in {"mul_bits", "div_bits", "rem_bits", "mul_assign_bits",
               "div_assign_bits", "rem_assign_bits"}
    THEN k ELSE b.bits

CheckedOps == {"checked_add", "checked_sub", "checked_mul", "checked_div"}
DivRemOps == {"div", "div_bits", "div_assign_bits",
              "rem", "rem_bits", "rem_assign", "rem_assign_bits"}

\* the exact result of an integer operation the last operation performed
\* lies outside the magnitude type
Overflowed ==
    LET x == SelfOf.bits
        ty == SelfOf.ty
    IN  CASE op = "neg" -> ~InRange(ty, -x)
          [] op \in {"add", "add_assign"} -> ~InRange(ty, x + RhsBits)
          [] op \in {"sub", "sub_assign"} -> ~InRange(ty, x - RhsBits)
          [] op \in {"mul", "mul_bits", "mul_assign_bits"} -> ~InRange(ty, x * RhsBits)
          [] op \in DivRemOps -> Signed(ty) /\ x = MinOf(ty) /\ RhsBits = -1
          [] op \in {"convert", "convert_convert"} ->
               LET diff == Abs(SelfOf.exp - to_exp)
               IN  \/ ~RatioFits(SelfOf, diff)
                   \/ SelfOf.exp >= to_exp /\ ~ScaledFits(SelfOf, diff)
          [] OTHER -> FALSE

\* the last operation divided, or took a remainder, by zero
DividedByZero ==
    CASE op \in DivRemOps -> RhsBits = 0
      [] op \in {"convert", "convert_convert"} ->
           /\ SelfOf.exp < to_exp
           /\ Wrap(SelfOf.ty, Power(SelfOf.base, Abs(SelfOf.exp - to_exp))) = 0
      [] OTHER -> FALSE

\* C6 as stated: the checked operations never abort, and an unchecked
\* operation aborts only where the underlying integer operation overflows
C6_AbortsOnlyOnOverflow ==
    /\ op \in CheckedOps => res.tag \in {"some", "none"}
    /\ res.tag = "panic" => Overflowed

\* C6 amended: the checked operations never abort, and an unchecked
\* operation aborts only where the underlying integer operation overflows
\* or divides (or takes a remainder) by zero
C6_AbortsOnlyOnOverflowOrZeroDivisor ==
    /\ op \in CheckedOps => res.tag \in {"some", "none"}
    /\ res.tag = "panic" => Overflowed \/ DividedByZero

\* an unchecked division by a zero magnitude aborted, with nothing overflowing
C6_Witness ==
    /\ op = "div"
    /\ a0.bits = 6
    /\ b.bits = 0
    /\ res.tag = "panic"
    /\ ~Overflowed

\* C7: a %= b leaves a with the remainder of the raw magnitudes at a's own
\* exponent, whatever the exponent of b
C7_RemAssignIgnoresRhsScale ==
    op = "rem_assign" =>
      /\ res.tag = "unit" =>
           /\ IsTruncRem(a.bits, a0.bits, b.bits)
           /\ a.base = a0.base /\ a.exp = a0.exp /\ a.ty = a0.ty
      /\ res.tag = "panic" => a = a0
      /\ \A RExp \in Exps : rem_assign(a0, [b EXCEPT !.exp = RExp]) = res

\* 6 at the top exponent %= 5 at the bottom exponent leaves 1 at the top one
C7_Witness ==
    /\ op = "rem_assign"
    /\ a0.base = 10
    /\ a0.bits = 6 /\ a0.exp = MaxExp
    /\ b.bits = 5 /\ b.exp = -MaxExp
    /\ a = new(1, 10, MaxExp, a0.ty)

Reverse(o) == CASE o = "Less" -> "Greater"
                [] o = "Greater" -> "Less"
                [] OTHER -> o

\* C8: equality, ordering and hashing of two same-scale values depend only
\* on the magnitudes: a == b iff the magnitudes are equal, a < b iff a's
\* magnitude is the smaller, the ordering is total and consistent with
\* equality, and equal values feed the hasher the same input
C8_CompareByMagnitude ==
    op = "compare" =>
      /\ obs.eq <=> a0.bits = b.bits
      /\ obs.cmp = "Less" <=> a0.bits < b.bits
      /\ obs.cmp = "Greater" <=> a0.bits > b.bits
      /\ obs.cmp \in {"Less", "Equal", "Greater"}
      /\ obs.partial_cmp = obs.cmp
      /\ obs.cmp = "Equal" <=> obs.eq
      /\ obs.rcmp = Reverse(obs.cmp)
      /\ obs.eq => obs.hash = obs.rhash

\* two same-scale values of different magnitude were compared
C8_Witness ==
    /\ op = "compare"
    /\ a0.bits = 1 /\ b.bits = 2
    /\ a0.exp = b.exp /\ a0.base = b.base
    /\ obs.cmp = "Less"
    /\ ~obs.eq

\* C9: map_bits changes only the magnitude: base and exponent are kept, a
\* narrowing cast to a w-bit unsigned type yields m mod 2^w, and a magnitude
\* within the target type's range is kept as it is
C9_MapBitsOnlyMagnitude ==
    op = "map_bits" =>
      LET ToBits == res.fix.ty
          m == a0.bits
      IN  /\ res.tag = "ok"
          /\ ToBits \in Types
          /\ res.fix.base = a0.base
          /\ res.fix.exp = a0.exp
          /\ InRange(ToBits, res.fix.bits)
          /\ (res.fix.bits - m) % Power(2, Width(ToBits)) = 0
          /\ ~Signed(ToBits) => res.fix.bits = m % Power(2, Width(ToBits))
          /\ InRange(ToBits, m) => res.fix.bits = m

\* 1699 cast to the 8-bit unsigned type is 163
C9_Witness ==
    /\ op = "map_bits"
    /\ a0.ty = "i16"
    /\ a0.bits = 1699
    /\ res.fix.ty = "u8"
    /\ res.fix.bits = 163

\* what the operator a compound operator mirrors returns on the same operands
Mirrored ==
    CASE op = "add_assign" -> add(a0, b)
      [] op = "sub_assign" -> sub(a0, b)
      [] op = "mul_assign_bits" -> mul_bits(a0, k)
      [] op = "div_assign_bits" -> div_bits(a0, k)
      [] op = "rem_assign_bits" -> rem_bits(a0, k)
      [] op = "rem_assign" -> rem(a0, b)

AssignOps == {"add_assign", "sub_assign", "mul_assign_bits", "div_assign_bits",
              "rem_assign_bits", "rem_assign"}

\* C10: each compound operator leaves its left operand as the non-compound
\* operator would return it (a %= b for a same-scale b): the same magnitude,
\* base and exponent unchanged, and it aborts exactly when that one aborts
C10_CompoundMirrorsPlain ==
    (op \in AssignOps /\ (op = "rem_assign" => b.exp = a0.exp)) =>
      /\ res.tag \in {"unit", "panic"}
      /\ res.tag = "panic" <=> Mirrored.tag = "panic"
      /\ res.tag = "unit" =>
           /\ res.fix = a
           /\ a = Mirrored.fix
           /\ a.base = a0.base /\ a.exp = a0.exp /\ a.ty = a0.ty
      /\ res.tag = "panic" => a = a0

\* a += b changed a to the sum
C10_Witness ==
    /\ op = "add_assign"
    /\ a0.bits = 1 /\ b.bits = 2
    /\ a.bits = 3
    /\ a.exp = a0.exp
    /\ res.tag = "unit"

\* C11 as stated, at the bases Base >= 1: for every magnitude and every pair
\* of exponents Exp <= ToExp a coarsening conversion completes (no overflow,
\* no division by zero) and returns a magnitude of absolute value at most
\* |m|, also when Base^(ToExp-Exp) exceeds the maximum of the magnitude type
C11_CoarseningAlwaysCompletes ==
    (op = "convert" /\ a0.exp <= to_exp /\ a0.base >= 1) =>
      /\ res.tag = "ok"
      /\ Abs(res.fix.bits) <= Abs(a0.bits)

=============================================================================
